---- MODULE Spec2Model ----
(***************************************************************************)
(* ERC-20 balance checker (src/main.py).                                   *)
(*                                                                         *)
(* Text is a sequence of one-character strings.  A Decimal is a record     *)
(* [c |-> coefficient, e |-> exponent] of value c * 10^e, the coefficient  *)
(* being a big-endian sequence of digits 0..9 without leading zeros (zero  *)
(* is <<0>>): balances range over uint256, which no machine integer holds. *)
(***************************************************************************)
EXTENDS Integers, Sequences, FiniteSets, TLC

\* getcontext().prec = 40
Prec == 40

\* the ".4f" of the two format specifications
FracDigits == 4

\* the "," of the two format specifications groups the integer part by three
GroupLen == 3

\* Web3.to_checksum_address accepts "0x" followed by 40 hexadecimal digits
AddrHexLen == 40

\* longest enumerated address-file content, in characters
MaxLen == 4

Max(a, b) == IF a >= b THEN a ELSE b

Min(a, b) == IF a <= b THEN a ELSE b

Zeros(k) == [i \in 1..k |-> 0]

Repeat(ch, k) == [i \in 1..k |-> ch]

(***************************************************************************)
(* Arbitrary-size naturals, as Python's int and Decimal coefficients.      *)
(***************************************************************************)
\* x without its leading zeros, one digit at least
StripZeros(x) ==
    IF \A i \in 1..Len(x) : x[i] = 0
    THEN <<0>>
    ELSE LET f == CHOOSE i \in 1..Len(x) :
                     x[i] # 0 /\ \A j \in 1..(i - 1) : x[j] = 0
         IN  SubSeq(x, f, Len(x))

\* the carry into position i of a + b: some lower position overflows and
\* every position between passes the carry on
CarryIn(a, b, i) ==
    \E j \in (i + 1)..Len(a) :
        /\ a[j] + b[j] >= 10
        /\ \A k \in (i + 1)..(j - 1) : a[k] + b[k] = 9

AddDigits(a, b) ==
    LET n  == Max(Len(a), Len(b))
        pa == Zeros(n - Len(a)) \o a
        pb == Zeros(n - Len(b)) \o b
        cy(i) == IF CarryIn(pa, pb, i) THEN 1 ELSE 0
    IN  StripZeros((IF cy(0) = 1 THEN <<1>> ELSE <<>>)
                   \o [i \in 1..n |-> (pa[i] + pb[i] + cy(i)) % 10])

\* a <= b, for coefficients without leading zeros
LeqDigits(a, b) ==
    \/ Len(a) < Len(b)
    \/ /\ Len(a) = Len(b)
       /\ \/ a = b
          \/ \E i \in 1..Len(a) :
                /\ a[i] < b[i]
                /\ \A j \in 1..(i - 1) : a[j] = b[j]

(***************************************************************************)
(* Decimal arithmetic in the context of main: precision Prec, rounding     *)
(* ROUND_HALF_EVEN (the default context's rounding, which main keeps).     *)
(***************************************************************************)
\* c without its last k digits, rounded half-even on what is dropped
RoundHalfEven(c, k) ==
    LET p       == IF Len(c) <= k THEN Zeros(k + 1 - Len(c)) \o c ELSE c
        kept    == SubSeq(p, 1, Len(p) - k)
        dropped == SubSeq(p, Len(p) - k + 1, Len(p))
        up      == /\ k > 0
                   /\ \/ dropped[1] > 5
                      \/ /\ dropped[1] = 5
                         /\ \/ \E i \in 2..k : dropped[i] # 0
                            \/ kept[Len(kept)] % 2 = 1
    IN  StripZeros(IF up THEN AddDigits(kept, <<1>>) ELSE kept)

\* Decimal._fix: round the coefficient to the context's precision
Fix(d) ==
    IF Len(d.c) <= Prec
    THEN d
    ELSE LET k == Len(d.c) - Prec
             r == RoundHalfEven(d.c, k)
         IN  IF Len(r) > Prec
             THEN [c |-> SubSeq(r, 1, Prec), e |-> d.e + k + 1]
             ELSE [c |-> r, e |-> d.e + k]

\* an exact quotient is reduced towards the ideal exponent 0
Reduce(d) ==
    IF d.c = <<0>>
    THEN [c |-> <<0>>, e |-> 0]
    ELSE LET n == Len(d.c)
             \* the trailing zeros that can go without passing exponent 0
             z == CHOOSE k \in 0..n :
                     /\ k <= 0 - d.e
                     /\ \A i \in (n - k + 1)..n : d.c[i] = 0
                     /\ (k = 0 - d.e \/ d.c[n - k] # 0)
         IN  [c |-> SubSeq(d.c, 1, n - z), e |-> d.e + z]

\* Decimal(raw) / Decimal(10**decimals): the quotient's digits are raw's
DecDiv(raw, decimals) ==
    LET q == [c |-> raw, e |-> 0 - decimals]
    IN  IF Len(raw) <= Prec THEN Reduce(q) ELSE Fix(q)

\* Decimal.__add__: the exact sum at the smaller exponent, then _fix
DecAdd(a, b) ==
    LET e  == Min(a.e, b.e)
        ca == IF a.c = <<0>> THEN <<0>> ELSE a.c \o Zeros(a.e - e)
        cb == IF b.c = <<0>> THEN <<0>> ELSE b.c \o Zeros(b.e - e)
    IN  Fix([c |-> AddDigits(ca, cb), e |-> e])

DecZero == [c |-> <<0>>, e |-> 0]

(***************************************************************************)
(* format(d, ",.4f"): Decimal.__format__ rescales to exponent -4 with the  *)
(* context's rounding, then groups the integer part.                       *)
(***************************************************************************)
\* c without its last k digits, rounded half-up on what is dropped
RoundHalfUp(c, k) ==
    LET p       == IF Len(c) <= k THEN Zeros(k + 1 - Len(c)) \o c ELSE c
        kept    == SubSeq(p, 1, Len(p) - k)
        dropped == SubSeq(p, Len(p) - k + 1, Len(p))
        up      == k > 0 /\ dropped[1] >= 5
    IN  StripZeros(IF up THEN AddDigits(kept, <<1>>) ELSE kept)

\* the rescaling of a format that rounds half-up
Rescale_HalfUp(d) ==
    IF d.c = <<0>> THEN <<0>>
    ELSE IF d.e >= 0 - FracDigits
         THEN d.c \o Zeros(d.e + FracDigits)
         ELSE RoundHalfUp(d.c, 0 - FracDigits - d.e)

\* Decimal._rescale(-FracDigits, ROUND_HALF_EVEN): the value in units of 10^-4
Rescale(d) ==
    IF d.c = <<0>> THEN <<0>>
    ELSE IF d.e >= 0 - FracDigits
         THEN d.c \o Zeros(d.e + FracDigits)
         ELSE RoundHalfEven(d.c, 0 - FracDigits - d.e)

DigitChar(n) == <<"0", "1", "2", "3", "4", "5", "6", "7", "8", "9">>[n + 1]

\* the integer part with a "," before every group of GroupLen digits
Group(ip) ==
    LET n      == Len(ip)
        commas == (n - 1) \div GroupLen
        m      == n + commas
    IN  [p \in 1..m |->
            LET r == m - p   \* the position, counted from the right, from 0
            IN  IF r % (GroupLen + 1) = GroupLen
                THEN ","
                ELSE DigitChar(ip[n - (r - r \div (GroupLen + 1))])]

Format(d) ==
    LET q  == Rescale(d)
        p  == IF Len(q) <= FracDigits THEN Zeros(FracDigits + 1 - Len(q)) \o q ELSE q
        ip == SubSeq(p, 1, Len(p) - FracDigits)
        fp == SubSeq(p, Len(p) - FracDigits + 1, Len(p))
    IN  Group(ip) \o <<".">> \o [i \in 1..FracDigits |-> DigitChar(fp[i])]

(***************************************************************************)
(* read_addresses: the lines of the file, as Python iterates a text file   *)
(* (each line keeps its newline), stripped and filtered.                   *)
(***************************************************************************)
Whitespace == {" ", "\t", "\n"}

RECURSIVE LStrip(_)
LStrip(s) ==
    IF Len(s) > 0 /\ s[1] \in Whitespace THEN LStrip(Tail(s)) ELSE s

RECURSIVE RStrip(_)
RStrip(s) ==
    IF Len(s) > 0 /\ s[Len(s)] \in Whitespace
    THEN RStrip(SubSeq(s, 1, Len(s) - 1))
    ELSE s

\* str.strip()
Strip(s) == RStrip(LStrip(s))

\* str.startswith("#")
StartsWithHash(s) == Len(s) > 0 /\ s[1] = "#"

\* the lines a text file yields, newline kept
RECURSIVE Lines(_)
Lines(text) ==
    IF text = <<>> THEN <<>>
    ELSE IF \E i \in 1..Len(text) : text[i] = "\n"
         THEN LET i == CHOOSE k \in 1..Len(text) :
                          /\ text[k] = "\n"
                          /\ \A j \in 1..(k - 1) : text[j] # "\n"
              IN  <<SubSeq(text, 1, i)>> \o Lines(SubSeq(text, i + 1, Len(text)))
         ELSE <<text>>

\* the condition of the comprehension: line.strip() and not line.startswith("#")
KeepLine(line) == Strip(line) # <<>> /\ ~StartsWithHash(line)

RECURSIVE Comprehension(_)
Comprehension(ls) ==
    IF ls = <<>> THEN <<>>
    ELSE (IF KeepLine(Head(ls)) THEN <<Strip(Head(ls))>> ELSE <<>>)
         \o Comprehension(Tail(ls))

read_addresses(text) == Comprehension(Lines(text))

(***************************************************************************)
(* Web3.to_checksum_address: "0x" and AddrHexLen lower-case hexadecimal    *)
(* digits is a well-formed address; a shorter or longer text, or one with  *)
(* another character, raises.  (The other forms the library accepts, with  *)
(* upper-case digits or without the prefix, occur in none of the inputs    *)
(* below.)                                                                 *)
(***************************************************************************)
HexChars == {"0", "1", "2", "3", "4", "5", "6", "7", "8", "9",
             "a", "b", "c", "d", "e", "f"}

IsAddress(s) ==
    /\ Len(s) = 2 + AddrHexLen
    /\ s[1] = "0"
    /\ s[2] = "x"
    /\ \A i \in 3..Len(s) : s[i] \in HexChars

(***************************************************************************)
(* The inputs of a run.                                                    *)
(***************************************************************************)
Wallet1 == <<"0", "x">> \o Repeat("a", AddrHexLen)

Wallet2 == <<"0", "x">> \o Repeat("a", AddrHexLen - 1) \o <<"b">>

TokenAddr == <<"0", "x">> \o Repeat("e", AddrHexLen)

BadAddr == <<"0", "x", "a">>

NL == <<"\n">>

\* address files holding well-formed addresses, and the example of the reader
SampleFiles ==
    { Wallet1 \o NL \o Wallet2 \o NL,
      Wallet1 \o NL \o <<"#", " ", "c">> \o NL \o NL \o Wallet1 \o NL,
      <<" ", " ">> \o Wallet1 \o <<" ">> \o NL \o Wallet2,
      Wallet1 \o NL \o BadAddr \o NL \o Wallet2 \o NL,
      Wallet1 \o NL \o <<" ", "#", "c">> \o NL \o Wallet2 \o NL,
      Wallet1 \o NL \o Wallet2 \o NL \o Wallet1 \o NL,
      <<"0", "x", "A">> \o NL \o <<"#", " ", "c", "o", "m", "m", "e", "n", "t">>
          \o NL \o NL \o <<"0", "x", "B">> \o NL }

Alphabet == {" ", "#", "a", "\n"}

\* every content of at most MaxLen characters over the alphabet
ShortFiles == UNION { [1..n -> Alphabet] : n \in 0..MaxLen }

FileTexts == SampleFiles \cup ShortFiles

\* os.getenv("RPC_URL") after load_dotenv: None, empty, or an URL
RpcUrls == {"None", "", "http://node"}

\* token.functions.decimals(): a uint8
DecimalsSet == {0, 5, 6, 30}

SymbolSet == {<<"I", "T", "X">>, <<"U">>}

MaxUint256 ==
    << 1,1,5,7,9,2,0,8,9,2,3,7,3,1,6,1,9,5,4,2,3,5,7,0,9,8,
       5,0,0,8,6,8,7,9,0,7,8,5,3,2,6,9,9,8,4,6,6,5,6,4,0,5,
       6,4,0,3,9,4,5,7,5,8,4,0,0,7,9,1,3,1,2,9,6,3,9,9,3,5 >>

\* token.functions.balanceOf(wallet): a uint256
RawSet ==
    { <<0>>, <<4>>, <<7>>, <<1, 5>>, <<1, 5, 0, 0, 0, 0, 0>>,
      <<1, 2, 3, 4, 5, 6, 7, 8, 9, 0, 0, 5>>,
      Repeat(9, Prec),
      <<1>> \o Zeros(Prec - 1) \o <<1>>,
      MaxUint256 }

(***************************************************************************)
(* main, from the statement after parse_args.                              *)
(***************************************************************************)
VARIABLES
    pc,          \* the statement main is at, or "done" / "failed"
    err,         \* the exception that ended the run, or "none"
    rpc_url,     \* os.getenv("RPC_URL")
    args_token,  \* args.token
    path_exists, \* whether args.addresses names an existing file
    file_text,   \* the content of that file
    w3,          \* whether the Web3 client has been constructed
    decimals,    \* the local of main; -1 before it is assigned
    symbol,      \* the local of main; <<>> before it is assigned
    total,       \* the running total
    addrs,       \* the list the for loop iterates
    idx,         \* the position of the loop in addrs
    bal,         \* the local of the loop body
    fetched,     \* what each completed fetch_balance read and returned
    trace        \* the network calls and the printed lines, in order

vars == <<pc, err, rpc_url, args_token, path_exists, file_text, w3, decimals,
          symbol, total, addrs, idx, bal, fetched, trace>>

inputs == <<rpc_url, args_token, path_exists, file_text>>

\* one entry of the trace: the operation, its argument, whether it returned
\* (rather than raised), and what it returned
Event(op, arg, ok, ret) == [op |-> op, arg |-> arg, ok |-> ok, ret |-> ret]

Raise(e) == pc' = "failed" /\ err' = e

Init ==
    /\ pc = "get_rpc_url"
    /\ err = "none"
    /\ rpc_url \in RpcUrls
    /\ args_token \in {TokenAddr, BadAddr}
    /\ path_exists \in BOOLEAN
    /\ file_text \in (IF path_exists THEN FileTexts ELSE {<<>>})
    /\ w3 = FALSE
    /\ decimals = -1
    /\ symbol = <<>>
    /\ total = DecZero
    /\ addrs = <<>>
    /\ idx = 0
    /\ bal = DecZero
    /\ fetched = <<>>
    /\ trace = <<>>

\* get_rpc_url testing "rpc is None" instead of "not rpc"
GetRpcUrl_NoneOnly ==
    /\ pc = "get_rpc_url"
    /\ IF rpc_url = "None"
       THEN Raise("EnvironmentError") /\ w3' = w3
       ELSE pc' = "is_connected" /\ err' = err /\ w3' = TRUE
    /\ UNCHANGED <<inputs, decimals, symbol, total, addrs, idx, bal, fetched, trace>>

\* w3 = Web3(Web3.HTTPProvider(get_rpc_url()))
GetRpcUrl ==
    /\ pc = "get_rpc_url"
    /\ IF rpc_url \in {"None", ""}
       THEN Raise("EnvironmentError") /\ w3' = w3
       ELSE pc' = "is_connected" /\ err' = err /\ w3' = TRUE
    /\ UNCHANGED <<inputs, decimals, symbol, total, addrs, idx, bal, fetched, trace>>

\* main calling is_connected without acting on what it returns
IsConnected_Ignored ==
    /\ pc = "is_connected"
    /\ \E connected \in BOOLEAN :
          trace' = Append(trace, Event("is_connected", <<>>, TRUE, connected))
    /\ pc' = "contract"
    /\ UNCHANGED <<err, inputs, w3, decimals, symbol, total, addrs, idx, bal, fetched>>

\* if not w3.is_connected(): raise ConnectionError
IsConnected ==
    /\ pc = "is_connected"
    /\ \E connected \in BOOLEAN :
          /\ trace' = Append(trace, Event("is_connected", <<>>, TRUE, connected))
          /\ IF connected
             THEN pc' = "contract" /\ err' = err
             ELSE Raise("ConnectionError")
    /\ UNCHANGED <<inputs, w3, decimals, symbol, total, addrs, idx, bal, fetched>>

\* token = w3.eth.contract(address=Web3.to_checksum_address(args.token), ...)
TokenContract ==
    /\ pc = "contract"
    /\ trace' = Append(trace, Event("to_checksum_address", args_token,
                                     IsAddress(args_token), <<>>))
    /\ IF IsAddress(args_token)
       THEN pc' = "decimals" /\ err' = err
       ELSE Raise("InvalidAddress")
    /\ UNCHANGED <<inputs, w3, decimals, symbol, total, addrs, idx, bal, fetched>>

\* decimals = token.functions.decimals().call()
CallDecimals ==
    /\ pc = "decimals"
    /\ \/ \E d \in DecimalsSet :
             /\ trace' = Append(trace, Event("decimals", args_token, TRUE, d))
             /\ decimals' = d
             /\ pc' = "symbol"
             /\ err' = err
       \/ /\ trace' = Append(trace, Event("decimals", args_token, FALSE, <<>>))
          /\ Raise("RPCError")
          /\ decimals' = decimals
    /\ UNCHANGED <<inputs, w3, symbol, total, addrs, idx, bal, fetched>>

\* symbol = token.functions.symbol().call()
CallSymbol ==
    /\ pc = "symbol"
    /\ \/ \E s \in SymbolSet :
             /\ trace' = Append(trace, Event("symbol", args_token, TRUE, s))
             /\ symbol' = s
             /\ pc' = "read_addresses"
             /\ err' = err
       \/ /\ trace' = Append(trace, Event("symbol", args_token, FALSE, <<>>))
          /\ Raise("RPCError")
          /\ symbol' = symbol
    /\ UNCHANGED <<inputs, w3, decimals, total, addrs, idx, bal, fetched>>

\* read_addresses without its path.exists() test: a missing file reads as empty
ReadAddresses_NoExistsTest ==
    /\ pc = "read_addresses"
    /\ total' = DecZero
    /\ addrs' = read_addresses(file_text)
    /\ idx' = 1
    /\ pc' = IF addrs' = <<>> THEN "print_total" ELSE "fetch_balance"
    /\ UNCHANGED <<err, inputs, w3, decimals, symbol, bal, fetched, trace>>

\* total = Decimal(0); for addr in read_addresses(Path(args.addresses)):
ReadAddresses ==
    /\ pc = "read_addresses"
    /\ total' = DecZero
    /\ IF ~path_exists
       THEN Raise("FileNotFoundError") /\ UNCHANGED <<addrs, idx>>
       ELSE /\ addrs' = read_addresses(file_text)
            /\ idx' = 1
            /\ pc' = IF addrs' = <<>> THEN "print_total" ELSE "fetch_balance"
            /\ err' = err
    /\ UNCHANGED <<inputs, w3, decimals, symbol, bal, fetched, trace>>

\* fetch_balance asking the contract for decimals() again on every call
FetchBalance_RefetchDecimals ==
    /\ pc = "fetch_balance"
    /\ IsAddress(args_token)
    /\ IsAddress(addrs[idx])
    /\ \E raw \in RawSet :
          /\ trace' = trace \o <<Event("decimals", args_token, TRUE, decimals),
                                  Event("balanceOf", addrs[idx], TRUE, raw)>>
          /\ bal' = DecDiv(raw, decimals)
          /\ fetched' = Append(fetched, [raw |-> raw, bal |-> bal'])
    /\ pc' = "add_total"
    /\ UNCHANGED <<err, inputs, w3, decimals, symbol, total, addrs, idx>>

\* the loop skipping an address that fails instead of letting the error out
FetchBalance_SkipFailed ==
    /\ pc = "fetch_balance"
    /\ LET wallet == addrs[idx]
           t2 == Append(trace, Event("to_checksum_address", wallet,
                                     IsAddress(wallet), <<>>))
       IN  IF ~IsAddress(wallet)
           THEN /\ trace' = t2
                /\ idx' = idx + 1
                /\ pc' = IF idx' > Len(addrs) THEN "print_total" ELSE "fetch_balance"
                /\ UNCHANGED <<bal, fetched>>
           ELSE \E raw \in RawSet :
                     /\ trace' = Append(t2, Event("balanceOf", wallet, TRUE, raw))
                     /\ bal' = DecDiv(raw, decimals)
                     /\ fetched' = Append(fetched, [raw |-> raw, bal |-> bal'])
                     /\ pc' = "add_total"
                     /\ idx' = idx
    /\ UNCHANGED <<err, inputs, w3, decimals, symbol, total, addrs>>

\* bal = fetch_balance(w3, args.token, addr, decimals)
FetchBalance ==
    /\ pc = "fetch_balance"
    /\ LET wallet == addrs[idx]
           \* line 74: the token address, normalized once more
           t1 == Append(trace, Event("to_checksum_address", args_token,
                                     IsAddress(args_token), <<>>))
           \* line 75: the wallet address is normalized before the call
           t2 == Append(t1, Event("to_checksum_address", wallet,
                                  IsAddress(wallet), <<>>))
       IN  IF ~IsAddress(args_token)
           THEN /\ trace' = t1
                /\ Raise("InvalidAddress")
                /\ UNCHANGED <<bal, fetched>>
           ELSE IF ~IsAddress(wallet)
           THEN /\ trace' = t2
                /\ Raise("InvalidAddress")
                /\ UNCHANGED <<bal, fetched>>
           ELSE \/ \E raw \in RawSet :
                     /\ trace' = Append(t2, Event("balanceOf", wallet, TRUE, raw))
                     /\ bal' = DecDiv(raw, decimals)
                     /\ fetched' = Append(fetched, [raw |-> raw, bal |-> bal'])
                     /\ pc' = "add_total"
                     /\ err' = err
                \/ /\ trace' = Append(t2, Event("balanceOf", wallet, FALSE, <<>>))
                   /\ Raise("RPCError")
                   /\ UNCHANGED <<bal, fetched>>
    /\ UNCHANGED <<inputs, w3, decimals, symbol, total, addrs, idx>>

\* total += bal
AddTotal ==
    /\ pc = "add_total"
    /\ total' = DecAdd(total, bal)
    /\ pc' = "print_line"
    /\ UNCHANGED <<err, inputs, w3, decimals, symbol, addrs, idx, bal, fetched, trace>>

\* f"{addr} : {bal:,.4f} {symbol}"
AddressLine(addr, b, sym) ==
    addr \o <<" ", ":", " ">> \o Format(b) \o <<" ">> \o sym

\* f"Total: {total:,.4f} {symbol}"
TotalLine(t, sym) ==
    <<"T", "o", "t", "a", "l", ":", " ">> \o Format(t) \o <<" ">> \o sym

\* the loop leaving after its first iteration
PrintAddress_Break ==
    /\ pc = "print_line"
    /\ trace' = Append(trace, Event("print", AddressLine(addrs[idx], bal, symbol),
                                     TRUE, <<>>))
    /\ idx' = idx + 1
    /\ pc' = "print_total"
    /\ UNCHANGED <<err, inputs, w3, decimals, symbol, total, addrs, bal, fetched>>

\* print(f"{addr} : {bal:,.4f} {symbol}"), and the loop's next iteration
PrintAddress ==
    /\ pc = "print_line"
    /\ trace' = Append(trace, Event("print", AddressLine(addrs[idx], bal, symbol),
                                     TRUE, <<>>))
    /\ idx' = idx + 1
    /\ pc' = IF idx' > Len(addrs) THEN "print_total" ELSE "fetch_balance"
    /\ UNCHANGED <<err, inputs, w3, decimals, symbol, total, addrs, bal, fetched>>

\* print(f"Total: {total:,.4f} {symbol}")
PrintTotal ==
    /\ pc = "print_total"
    /\ trace' = Append(trace, Event("print", TotalLine(total, symbol), TRUE, <<>>))
    /\ pc' = "done"
    /\ UNCHANGED <<err, inputs, w3, decimals, symbol, total, addrs, idx, bal, fetched>>

Next ==
    \/ GetRpcUrl
    \/ IsConnected
    \/ TokenContract
    \/ CallDecimals
    \/ CallSymbol
    \/ ReadAddresses
    \/ FetchBalance
    \/ AddTotal
    \/ PrintAddress
    \/ PrintTotal

Spec == Init /\ [][Next]_vars

(***************************************************************************)
(* Views of the trace.                                                     *)
(***************************************************************************)
Positions(op) == {i \in 1..Len(trace) : trace[i].op = op}

Count(op) == Cardinality(Positions(op))

ContractCalls == Positions("decimals") \cup Positions("symbol") \cup Positions("balanceOf")

NetworkCalls == ContractCalls \cup Positions("is_connected")

IsPrint(ev) == ev.op = "print"

IsBalanceOf(ev) == ev.op = "balanceOf"

IsStep(ev) == ev.op \in {"balanceOf", "print"}

\* the printed lines, in order
Printed ==
    LET sel == SelectSeq(trace, IsPrint)
    IN  [i \in 1..Len(sel) |-> sel[i].arg]

\* the balanceOf calls, in order
BalanceCalls == SelectSeq(trace, IsBalanceOf)

\* the balanceOf calls and the prints, in order
Steps == SelectSeq(trace, IsStep)

TotalPrefix == <<"T", "o", "t", "a", "l", ":", " ">>

IsTotalLine(text) ==
    Len(text) >= Len(TotalPrefix) /\ SubSeq(text, 1, Len(TotalPrefix)) = TotalPrefix

\* the statements of main up to and including read_addresses
BeforeLoop ==
    {"get_rpc_url", "is_connected", "contract", "decimals", "symbol", "read_addresses"}

(***************************************************************************)
(* C1.  read_addresses returns exactly the lines that, once trimmed, are   *)
(* non-empty and do not start with "#", each trimmed and in file order; no *)
(* element of the result is empty or starts with "#".                      *)
(***************************************************************************)
WantedLine(line) == Strip(line) # <<>> /\ Strip(line)[1] # "#"

RECURSIVE WantedOf(_)
WantedOf(ls) ==
    IF ls = <<>> THEN <<>>
    ELSE (IF WantedLine(Head(ls)) THEN <<Strip(Head(ls))>> ELSE <<>>)
         \o WantedOf(Tail(ls))

C1_ReaderDropsBlanksAndComments ==
    (path_exists /\ idx >= 1) =>
        /\ addrs = WantedOf(Lines(file_text))
        /\ \A i \in 1..Len(addrs) : addrs[i] # <<>> /\ addrs[i][1] # "#"

(***************************************************************************)
(* C2.  As claimed: when the address file does not exist, the run fails    *)
(* with the file-not-found error before any RPC client is constructed and  *)
(* before any connectivity check or contract call.                         *)
(***************************************************************************)
C2_MissingFileFailsBeforeClient ==
    err = "FileNotFoundError" => (~w3 /\ NetworkCalls = {})

(***************************************************************************)
(* C2, amended.  When the address file does not exist the run never gets   *)
(* past read_addresses: no balanceOf call is made and nothing is printed;  *)
(* the file-not-found error is raised after the client was constructed,    *)
(* the connectivity check passed and decimals() and symbol() returned, and *)
(* a run with a missing file that got that far ends with that error.       *)
(***************************************************************************)
C2_MissingFileFailsBeforeLoop ==
    ~path_exists =>
        /\ pc \in BeforeLoop \cup {"failed"}
        /\ Count("balanceOf") = 0
        /\ Count("print") = 0
        /\ err = "FileNotFoundError" =>
              /\ w3
              /\ Count("is_connected") = 1
              /\ Count("decimals") = 1
              /\ Count("symbol") = 1
        /\ (pc = "failed" /\ symbol # <<>>) => err = "FileNotFoundError"

C2_Witness == ~path_exists /\ pc = "failed" /\ err = "FileNotFoundError"

(***************************************************************************)
(* C3.  When RPC_URL is unset or empty the run fails with the              *)
(* configuration error before the client is constructed, before any        *)
(* network call and before anything is printed.                            *)
(***************************************************************************)
C3_MissingUrlFailsFirst ==
    rpc_url \in {"None", ""} =>
        /\ pc \in {"get_rpc_url", "failed"}
        /\ pc = "failed" => err = "EnvironmentError"
        /\ ~w3
        /\ trace = <<>>

C3_Witness == rpc_url = "" /\ pc = "failed" /\ err = "EnvironmentError"

(***************************************************************************)
(* C10.  When the connectivity check reports not connected the run fails   *)
(* with the connection error: the check is the only entry of the trace (no *)
(* contract call, no normalization of the token address, nothing printed)  *)
(* and the address file has not been read.                                 *)
(***************************************************************************)
C10_NotConnectedFailsFirst ==
    (\E i \in Positions("is_connected") : ~trace[i].ret) =>
        /\ pc = "failed"
        /\ err = "ConnectionError"
        /\ trace = <<Event("is_connected", <<>>, TRUE, FALSE)>>
        /\ idx = 0
        /\ addrs = <<>>

C10_Witness ==
    /\ err = "ConnectionError"
    /\ path_exists
    /\ args_token = BadAddr
    /\ trace # <<>>

(***************************************************************************)
(* C6.  decimals() and symbol() are called once each, never more: after a  *)
(* successful connectivity check, decimals before symbol, both before the  *)
(* first balanceOf call, and exactly once in a run that reaches the loop.  *)
(* What they returned is what every conversion, every printed line and the *)
(* Total line use.  balanceOf is called once per address entry, in order,  *)
(* duplicates included: a successful run over n entries makes 2 + n        *)
(* contract calls.                                                         *)
(***************************************************************************)
C6_MetadataOnceBalancePerEntry ==
    /\ Count("decimals") <= 1
    /\ Count("symbol") <= 1
    /\ \A d \in Positions("decimals") : \A s \in Positions("symbol") :
          /\ d < s
          /\ trace[d].ok
          /\ \E c \in Positions("is_connected") : c < d /\ trace[c].ret
    /\ \A b \in Positions("balanceOf") :
          \E s \in Positions("symbol") : s < b /\ trace[s].ok
    /\ pc \notin (BeforeLoop \cup {"failed"}) =>
          Count("decimals") = 1 /\ Count("symbol") = 1
    /\ \A k \in 1..Len(fetched) : \A d \in Positions("decimals") :
          fetched[k].bal = DecDiv(fetched[k].raw, trace[d].ret)
    /\ \A k \in 1..Len(Printed) : \A s \in Positions("symbol") :
          IF k <= Len(addrs)
          THEN Printed[k] = AddressLine(addrs[k], fetched[k].bal, trace[s].ret)
          ELSE Printed[k] = TotalLine(total, trace[s].ret)
    /\ Len(BalanceCalls) <= Len(addrs)
    /\ \A j \in 1..Len(BalanceCalls) : BalanceCalls[j].arg = addrs[j]
    /\ pc = "done" =>
          /\ Len(BalanceCalls) = Len(addrs)
          /\ Cardinality(ContractCalls) = 2 + Len(addrs)

C6_Witness ==
    /\ pc = "done"
    /\ Len(addrs) = 3
    /\ addrs[1] = addrs[3]
    /\ Cardinality(ContractCalls) = 5

(***************************************************************************)
(* C7.  A successful run over entries a_1..a_n prints n address lines in   *)
(* file order and then one Total line, the last thing it does (the Total   *)
(* line alone, showing zero, when n = 0).  At every moment the balanceOf   *)
(* calls and the prints alternate: call for a_1, line for a_1, call for    *)
(* a_2, ..., and the Total line comes only after all n address lines.      *)
(***************************************************************************)
C7_SequentialReport ==
    LET n == Len(addrs)
    IN  /\ Len(Steps) <= 2 * n + 1
        /\ \A j \in 1..Len(Steps) :
              IF j > 2 * n
              THEN /\ pc = "done"
                   /\ Steps[j].op = "print"
                   /\ Steps[j].arg = TotalLine(total, symbol)
                   /\ trace[Len(trace)] = Steps[j]
              ELSE IF j % 2 = 1
              THEN /\ Steps[j].op = "balanceOf"
                   /\ Steps[j].arg = addrs[(j + 1) \div 2]
              ELSE /\ Steps[j].op = "print"
                   /\ ~IsTotalLine(Steps[j].arg)
                   /\ Steps[j].arg =
                         AddressLine(addrs[j \div 2], fetched[j \div 2].bal, symbol)
        /\ pc = "done" =>
              /\ Len(Printed) = n + 1
              /\ IsTotalLine(Printed[n + 1])
              /\ n = 0 => Printed = <<TotalPrefix \o <<"0", ".", "0", "0", "0", "0", " ">>
                                       \o symbol>>

C7_Witness ==
    /\ pc = "done"
    /\ Len(addrs) = 2
    /\ Len(Printed) = 3
    /\ addrs[1] # addrs[2]

(***************************************************************************)
(* C8.  Fail-fast: an operation that raises is the last thing the run      *)
(* does.  When the k-th entry fails, exactly the k-1 lines of the entries  *)
(* before it have been printed and no Total line; no balanceOf call was    *)
(* made for a later entry; a malformed k-th entry fails before a balanceOf *)
(* call is issued for it; and nothing follows (the run has stopped).       *)
(***************************************************************************)
C8_FailFast ==
    /\ \A i \in 1..Len(trace) :
          ~trace[i].ok => (i = Len(trace) /\ pc = "failed")
    /\ pc = "failed" => ~ENABLED Next
    /\ (pc = "failed" /\ idx >= 1) =>
          /\ Len(Printed) = idx - 1
          /\ \A k \in 1..Len(Printed) :
                /\ ~IsTotalLine(Printed[k])
                /\ Printed[k] = AddressLine(addrs[k], fetched[k].bal, symbol)
          /\ IF IsAddress(addrs[idx])
             THEN /\ err = "RPCError"
                  /\ Len(BalanceCalls) = idx
                  /\ ~BalanceCalls[idx].ok
             ELSE /\ err = "InvalidAddress"
                  /\ Len(BalanceCalls) = idx - 1

C8_Witness ==
    /\ pc = "failed"
    /\ idx = 2
    /\ Len(addrs) = 3
    /\ err = "InvalidAddress"
    /\ Len(Printed) = 1

(***************************************************************************)
(* Exact values, to compare the program's Decimals with.                   *)
(***************************************************************************)
\* the one representation of a value: no trailing zero in the coefficient
Canon(d) ==
    IF d.c = <<0>>
    THEN DecZero
    ELSE LET n == Len(d.c)
             z == CHOOSE k \in 0..(n - 1) :
                     /\ \A i \in (n - k + 1)..n : d.c[i] = 0
                     /\ d.c[n - k] # 0
         IN  [c |-> SubSeq(d.c, 1, n - z), e |-> d.e + z]

SameValue(a, b) == Canon(a) = Canon(b)

\* raw / 10^dec, exactly
Exact(raw, dec) == [c |-> raw, e |-> 0 - dec]

\* the balances main has added to the total so far
NAdded == IF pc = "add_total" THEN Len(fetched) - 1 ELSE Len(fetched)

\* the exact sum of the first n raw balances
RECURSIVE RawSum(_)
RawSum(n) == IF n = 0 THEN <<0>> ELSE AddDigits(RawSum(n - 1), fetched[n].raw)

\* the first n converted balances, added in order in main's decimal context
RECURSIVE BalSum(_)
BalSum(n) == IF n = 0 THEN DecZero ELSE DecAdd(BalSum(n - 1), fetched[n].bal)

(***************************************************************************)
(* C4.  As claimed: after the first i addresses the running total is the   *)
(* exact sum of raw_k / 10^decimals over them, for uint256 raw balances    *)
(* and decimals in 0..30.                                                  *)
(***************************************************************************)
C4_TotalIsExactSum ==
    (decimals \in 0..30 /\ idx >= 1) =>
        SameValue(total, Exact(RawSum(NAdded), decimals))

(***************************************************************************)
(* C5.  As claimed: fetch_balance returns exactly raw / 10^decimals for    *)
(* every uint256 raw balance; with decimals = 0, the raw integer itself.   *)
(***************************************************************************)
C5_ConversionExact ==
    \A k \in 1..Len(fetched) :
        /\ SameValue(fetched[k].bal, Exact(fetched[k].raw, decimals))
        /\ decimals = 0 => fetched[k].bal = [c |-> fetched[k].raw, e |-> 0]

(***************************************************************************)
(* Reading a displayed amount back.                                        *)
(***************************************************************************)
DigitChars == {DigitChar(n) : n \in 0..9}

IsDigitChar(ch) == ch \in DigitChars

DigitVal(ch) == CHOOSE n \in 0..9 : DigitChar(n) = ch

\* the amount between "<addr> : " or "Total: " and " <symbol>"
AmountOf(line, prefixLen, sym) ==
    SubSeq(line, prefixLen + 1, Len(line) - Len(sym) - 1)

\* digits, a "," before every third digit left of the ".", 4 digits after it,
\* no leading zero but a lone one
WellFormedAmount(t) ==
    LET dot == Len(t) - FracDigits
    IN  /\ dot >= 2
        /\ t[dot] = "."
        /\ \A i \in (dot + 1)..Len(t) : IsDigitChar(t[i])
        /\ \A i \in 1..(dot - 1) :
              IF (dot - i) % (GroupLen + 1) = 0
              THEN t[i] = ","
              ELSE IsDigitChar(t[i])
        /\ t[1] = "0" => dot = 2

\* the displayed amount in units of 10^-4
Shown(t) ==
    LET ds == SelectSeq(t, IsDigitChar)
    IN  StripZeros([i \in 1..Len(ds) |-> DigitVal(ds[i])])

Twice(x) == AddDigits(x, x)

Shift(x, k) == IF x = <<0>> THEN x ELSE x \o Zeros(k)

\* q * 10^-4 is a multiple of 10^-4 nearest to d: 2 |d - q| <= 1, in units
\* of 10^-4 scaled to integers
Nearest(q, d) ==
    IF d.e >= 0 - FracDigits
    THEN q = StripZeros(Shift(d.c, d.e + FracDigits))
    ELSE LET k  == 0 - FracDigits - d.e
             q2 == Shift(Twice(q), k)
             c2 == Twice(d.c)
             h  == <<1>> \o Zeros(k)
         IN  LeqDigits(q2, AddDigits(c2, h)) /\ LeqDigits(c2, AddDigits(q2, h))

\* d lies exactly half way between q * 10^-4 and the multiple above it
TieAbove(q, d) ==
    /\ d.e < 0 - FracDigits
    /\ Twice(d.c) = AddDigits(Shift(Twice(q), 0 - FracDigits - d.e),
                              <<1>> \o Zeros(0 - FracDigits - d.e))

\* d lies exactly half way between q * 10^-4 and the multiple below it
TieBelow(q, d) ==
    /\ d.e < 0 - FracDigits
    /\ Shift(Twice(q), 0 - FracDigits - d.e)
          = AddDigits(Twice(d.c), <<1>> \o Zeros(0 - FracDigits - d.e))

IsEven(q) == q[Len(q)] % 2 = 0

ShownHalfEven(t, d) ==
    /\ WellFormedAmount(t)
    /\ Nearest(Shown(t), d)
    /\ (TieAbove(Shown(t), d) \/ TieBelow(Shown(t), d)) => IsEven(Shown(t))

ShownHalfUp(t, d) ==
    /\ WellFormedAmount(t)
    /\ Nearest(Shown(t), d)
    /\ ~TieAbove(Shown(t), d)

\* the value and the displayed amount of the k-th printed line
ValueOfLine(k) == IF k <= Len(addrs) THEN fetched[k].bal ELSE total

AmountOfLine(k) ==
    AmountOf(Printed[k],
             IF k <= Len(addrs) THEN Len(addrs[k]) + 3 ELSE Len(TotalPrefix),
             symbol)

(***************************************************************************)
(* C9.  As claimed: every displayed balance, and the displayed total, is   *)
(* the value rounded half-up to exactly 4 fractional digits                *)
(* (1234567.89005 displays as 1,234,567.8901); the total is accumulated    *)
(* from the balances as converted, not as displayed.                       *)
(***************************************************************************)
C9_DisplayRoundsHalfUp ==
    /\ \A k \in 1..Len(Printed) : ShownHalfUp(AmountOfLine(k), ValueOfLine(k))
    /\ total = BalSum(NAdded)

(***************************************************************************)
(* C9, amended.  Every displayed balance, and the displayed total, is the  *)
(* value rounded (not truncated) to exactly 4 fractional digits, a value   *)
(* half way between two such amounts going to the one whose last digit is  *)
(* even (1234567.89005 displays as 1,234,567.8900); the total is           *)
(* accumulated from the balances as converted, not as displayed.           *)
(***************************************************************************)
C9_DisplayRoundsHalfEven ==
    /\ \A k \in 1..Len(Printed) : ShownHalfEven(AmountOfLine(k), ValueOfLine(k))
    /\ total = BalSum(NAdded)

\* 1234567.89005 has been printed, as 1,234,567.8900
C9_Witness ==
    \E k \in 1..Len(Printed) :
        /\ k <= Len(addrs)
        /\ fetched[k].bal = [c |-> <<1, 2, 3, 4, 5, 6, 7, 8, 9, 0, 0, 5>>, e |-> -5]
        /\ AmountOfLine(k) = <<"1", ",", "2", "3", "4", ",", "5", "6", "7", ".",
                               "8", "9", "0", "0">>

====
